---- MODULE Spec2Model ----
(***************************************************************************)
(* Portal Text Adventure: the room store, the exit resolver, the room      *)
(* factory (AI and manual paths), the in-room design workflow, the world   *)
(* editor and the play loop of src/.history/game_20251109041041.py (the     *)
(* version with the World Editor and design; src/game.py is the same play  *)
(* loop without the link role, the editor and design).                     *)
(*                                                                         *)
(* Abstractions: a room's description is display text tied to its title    *)
(* and is left out; room keys are the integers the code writes as decimal  *)
(* strings (str/int round trip on them is exact); an exit's optional       *)
(* "target" key is a sequence, <<>> when the key is absent and <<t>> when  *)
(* it holds t; random draws and the external collaborators (text provider, *)
(* image provider, image processing, player input) are nondeterministic    *)
(* choices over small sets.                                                *)
(***************************************************************************)
EXTENDS Integers, Sequences, FiniteSets, TLC

VARIABLES
    disk,          \* rooms.json: [exists, torn, doc]
    data,          \* the World held in memory by the running loop
    current_id,    \* play loop: id of the room the player is in
    player_coins,  \* play loop: coins the player carries
    order,         \* play loop: the shuffled order behind disp_exits
    pc,            \* where the process is: menu, top, prompt, editor, creating, over,
                   \* exited, crashed
    in_play,       \* TRUE while play_game_loop is on the call stack
    ADMIN_PASS,    \* environment: "" when unset
    taken_id,      \* create_manual_room while it prompts: <<the id it took>>, else <<>>
    up,            \* the UploadServer of a design upload and the threads around it
    ev             \* what the last handler did: command, messages printed, room created

vars == <<disk, data, current_id, player_coins, order, pc, in_play, ADMIN_PASS,
          taken_id, up, ev>>

----------------------------------------------------------------------------
(* Bounds *)

\* next_id never grows past MaxRooms: creation is disabled at the cap
MaxRooms == 3

----------------------------------------------------------------------------
(* Program constants *)

COIN_COST == 3
ComputerEvery == 10
ComputerTitle == "Room Creation Computer"

----------------------------------------------------------------------------
(* Data model *)

Exit(role, label) == [role |-> role, label |-> label, target |-> <<>>]

LinkExit(label, target) == [role |-> "link", label |-> label, target |-> <<target>>]

Room(id, title, coins, exits) ==
    [id |-> id, title |-> title, image |-> "", coins |-> coins, exits |-> exits]

NoRooms == [k \in {} |-> 0]

NoWorld == [next_id |-> 0, total_generated |-> 0, start_room |-> 0, rooms |-> NoRooms]

DefaultExits == <<Exit("home_or_death", "Left"), Exit("existing_or_new", "Right")>>

DefaultWorld ==
    [next_id |-> 1, total_generated |-> 0, start_room |-> 0,
     rooms |-> (0 :> Room(0, "The First Chamber", 1,
                          <<Exit("home_or_death", "Left portal"),
                            Exit("existing_or_new", "Right portal")>>))]

\* A hand-written rooms.json: one room with a single built exit whose role is
\* none of the three the code names, three coins, and nine generations
\* already counted.
AuthoredWorld ==
    [next_id |-> 1, total_generated |-> 9, start_room |-> 0,
     rooms |-> (0 :> Room(0, "Trailhead", 3, <<Exit("secret_passage", "Path")>>))]

HasRoom(d, id) == id \in DOMAIN d.rooms

StoreRoom(d, room) == [d EXCEPT !.rooms = (room.id :> room) @@ d.rooms]

ImagePath(room_id) == "images/room_" \o ToString(room_id) \o ".png"

----------------------------------------------------------------------------
(* Room store *)

\* mutant: the generation counter is not written
save_data_NoCounter(d) ==
    [exists |-> TRUE, torn |-> FALSE, doc |-> [d EXCEPT !.total_generated = 0]]

\* open(DATA_FILE, "w") and json.dump run to the end; doc is the document written
save_data(d) == [exists |-> TRUE, torn |-> FALSE, doc |-> d]

\* the same call ended between the truncating open and the end of json.dump
\* (the process was killed, or the write raised OSError): the file holds a
\* proper prefix of the text of d, possibly none of it
interrupted_save(d) == [exists |-> TRUE, torn |-> TRUE, doc |-> d]

\* load_data: [data, disk] after the call; raised: json.load did not parse
load_data(dk) ==
    IF ~dk.exists
    THEN [data |-> DefaultWorld, disk |-> save_data(DefaultWorld), raised |-> FALSE]
    ELSE IF dk.torn
    THEN [data |-> NoWorld, disk |-> dk, raised |-> TRUE]
    ELSE [data |-> dk.doc, disk |-> dk, raised |-> FALSE]

----------------------------------------------------------------------------
(* Room factory *)

\* mutant: the counter is not advanced
AllocatedNextId_Stuck(room_id) == room_id

\* mutant: the counter passes over an id
AllocatedNextId_Skip(room_id) == room_id + 2

\* the id counter after handing out room_id
AllocatedNextId(room_id) == room_id + 1

\* mutant: the count is tested as if before its increment
IsComputerGeneration_Early(total_generated) ==
    (total_generated + 1) % ComputerEvery = 0

\* the special room replaces the generated content on these counts
IsComputerGeneration(total_generated) == total_generated % ComputerEvery = 0

ComputerRoom(room_id) ==
    Room(room_id, ComputerTitle, 0,
         <<Exit("home_or_death", "Left Console Gate"),
           Exit("existing_or_new", "Right Console Gate")>>)

\* What the text provider returned, as create_new_room_ai reads it: "full" has
\* every key, "empty" is an object without them.
GeneratedTitle(text, room_id) ==
    IF text = "full" THEN "Crystal Cave" ELSE "Room " \o ToString(room_id)

\* mutant: a generated room is built with its second exit only
GeneratedExits_Single(text) ==
    <<Exit("existing_or_new", IF text = "full" THEN "South" ELSE "Right")>>

GeneratedExits(text) ==
    IF text = "full"
    THEN <<Exit("home_or_death", "North"), Exit("existing_or_new", "South")>>
    ELSE DefaultExits

\* mutant: the image path is recorded although the image step failed
ImageAfter_Stale(outcome, room_id) == ImagePath(room_id)

\* the image field after the image step: the saved path, or empty on any failure
ImageAfter(outcome, room_id) == IF outcome = "ok" THEN ImagePath(room_id) ELSE ""

\* what the console shows when the image step fails, by path
ImageFailure(outcome, where) ==
    IF outcome = "fail" THEN <<where \o " failed">> ELSE <<>>

\* gen: [text \in {"fail", "nondict", "empty", "full"}, coins, image \in {"ok", "fail"}]
\* text = "fail": generate_room_text raised; "nondict": it returned JSON that is
\* no object, and room_json.get raises.
\* Result: the World in memory, the document on disk, whether an exception
\* left the function, the id taken, and what was printed.
create_new_room_ai(d, dk, gen) ==
    LET room_id == d.next_id
        d1 == [d EXCEPT !.next_id = AllocatedNextId(room_id)]
        d2 == [d1 EXCEPT !.total_generated = @ + 1]
        room == [Room(room_id, GeneratedTitle(gen.text, room_id), gen.coins,
                      GeneratedExits(gen.text))
                 EXCEPT !.image = ImageAfter(gen.image, room_id)]
    IN  IF gen.text = "fail"
        THEN [data |-> d1, disk |-> dk, raised |-> TRUE, id |-> room_id,
              msg |-> <<"RuntimeError: text generation">>]
        ELSE IF IsComputerGeneration(d2.total_generated)
        THEN LET d3 == StoreRoom(d2, ComputerRoom(room_id))
             IN  [data |-> d3, disk |-> save_data(d3), raised |-> FALSE, id |-> room_id,
                  msg |-> <<>>]
        ELSE IF gen.text = "nondict"
        THEN [data |-> d2, disk |-> dk, raised |-> TRUE, id |-> room_id,
              msg |-> <<"AttributeError: room_json.get">>]
        ELSE LET d3 == StoreRoom(d2, room)
             IN  [data |-> d3, disk |-> save_data(d3), raised |-> FALSE, id |-> room_id,
                  msg |-> ImageFailure(gen.image, "Image generation")]

\* mutant: a manual creation counts as a generation
begin_manual_room_Counted(d) ==
    [d EXCEPT !.next_id = d.next_id + 1, !.total_generated = @ + 1]

\* create_manual_room up to its first prompt: the id is taken
begin_manual_room(d) == [d EXCEPT !.next_id = AllocatedNextId(d.next_id)]

\* create_manual_room from there on, with the id it holds.
\* manual: [title, coins, exits, image \in {"", "ok", "fail"}, parse \in {"ok", "bad"}]
\* parse = "bad": an interactive int(...) raised ValueError (prompted path only).
finish_manual_room(d1, dk, id, manual) ==
    LET room == [Room(id, manual.title, manual.coins, manual.exits)
                 EXCEPT !.image = IF manual.image = "" THEN ""
                                  ELSE ImageAfter(manual.image, id)]
        d2 == StoreRoom(d1, room)
    IN  IF manual.parse = "bad"
        THEN [data |-> d1, disk |-> dk, raised |-> TRUE, id |-> id,
              msg |-> <<"ValueError">>]
        ELSE [data |-> d2, disk |-> save_data(d2), raised |-> FALSE, id |-> id,
              msg |-> ImageFailure(manual.image, "Image processing")
                      \o <<"Created manual room">>]

create_manual_room(d, dk, manual) ==
    finish_manual_room(begin_manual_room(d), dk, d.next_id, manual)

Manual(title, coins, exits, image) ==
    [title |-> title, coins |-> coins, exits |-> exits, image |-> image, parse |-> "ok"]

----------------------------------------------------------------------------
(* Design workflow *)

\* mutant: the back link names a room that is not the current one
DesignedExits_Elsewhere(current_room, cur) ==
    <<LinkExit("Back to " \o current_room.title, cur + 7),
      Exit("existing_or_new", "Right (mysterious)")>>

DesignedExits(current_room, cur) ==
    <<LinkExit("Back to " \o current_room.title, cur),
      Exit("existing_or_new", "Right (mysterious)")>>

\* mutant: the new exit is put in front of the existing one
WithNewExit_Front(exits, new_exit) == <<new_exit>> \o exits

\* the current room's exit list once the new exit is added
WithNewExit(exits, new_exit) == Append(exits, new_exit)

DesignImageMessage(img) ==
    CASE img = "path_fail" -> <<"Failed saving uploaded image">>
      [] img = "upload_none" -> <<"No image uploaded (timeout or error).">>
      [] img = "upload_ok" -> <<"Image uploaded and saved">>
      [] OTHER -> <<>>

\* inp: [title, coins, label, img \in {"", "path_ok", "path_fail", "upload_ok",
\*       "upload_none"}, parse]
design_room_from_current(d, dk, cur, inp) ==
    LET current_room == d.rooms[cur]
        made == create_manual_room(d, dk,
                    Manual(inp.title, inp.coins, DesignedExits(current_room, cur), ""))
        saved == inp.img \in {"path_ok", "upload_ok"}
        d1 == IF saved
              THEN [made.data EXCEPT !.rooms[made.id].image = ImagePath(made.id)]
              ELSE made.data
        new_exit == LinkExit(inp.label, made.id)
        d2 == [d1 EXCEPT !.rooms[cur].exits = WithNewExit(current_room.exits, new_exit)]
    IN  IF inp.parse = "bad"
        THEN [data |-> d, disk |-> dk, raised |-> TRUE, id |-> d.next_id,
              msg |-> <<"ValueError">>]
        ELSE [data |-> d2, disk |-> save_data(d2), raised |-> FALSE, id |-> made.id,
              msg |-> made.msg \o DesignImageMessage(inp.img)
                      \o <<"Designed new room">>]

----------------------------------------------------------------------------
(* Play loop helpers *)

\* mutant: the shuffle may repeat an index
Orders_Repeating(n) == [1..n -> 1..n]

\* random.shuffle(order): the orders it can leave
Orders(n) == {o \in [1..n -> 1..n] : \A i, j \in 1..n : o[i] = o[j] => i = j}

\* randomized_exits_for_display: display key -> exit, through a shuffled order
disp_exits(room, o) == [k \in DOMAIN o |-> room.exits[o[k]]]

\* mutant: design is refused only in a room without exits
only_one_exit_AtLeast(room) == Len(room.exits) >= 1

\* mutant: design is offered in every room
only_one_exit_Always(room) == TRUE

only_one_exit(room) == Len(room.exits) = 1

\* mutant: the current room is not excluded from the draw
OtherRooms_All(d, exclude_id) == DOMAIN d.rooms

\* mutant: the draw never finds a room
OtherRooms_None(d, exclude_id) == {}

\* pick_existing_room draws from these; None when the set is empty
OtherRooms(d, exclude_id) == {k \in DOMAIN d.rooms : k # exclude_id}

\* mutant: the room keeps its coins after the pickup
AfterPickup_Keep(room) == room

\* coin pickup at the top of the loop: the room afterwards
AfterPickup(room) == IF room.coins > 0 THEN [room EXCEPT !.coins = 0] ELSE room

\* mutant: a pickup counts twice
CoinsGained_Double(room) == IF room.coins > 0 THEN 2 * room.coins ELSE 0

CoinsGained(room) == IF room.coins > 0 THEN room.coins ELSE 0

\* mutant: a death does not end the session
HomeOrDeath_Survive(low) == IF low THEN "win" ELSE "move"

\* home_or_death: random.random() < 0.75 wins, otherwise the player dies
HomeOrDeath(low) == IF low THEN "win" ELSE "death"

\* mutant: no link branch, as in src/game.py
LinkResolves_Never(d, chosen) == FALSE

\* mutant: a link is followed without looking its target up
LinkResolves_Unchecked(d, chosen) == chosen.role = "link" /\ chosen.target # <<>>

LinkResolves(d, chosen) ==
    chosen.role = "link" /\ chosen.target # <<>> /\ HasRoom(d, chosen.target[1])

LinkBroken(d, chosen) ==
    chosen.role = "link" /\ chosen.target # <<>> /\ ~HasRoom(d, chosen.target[1])

\* What choosing `chosen` in room `cur` leads to. low: random.random() fell under
\* the branch's threshold; pick: the draw of pick_existing_room.
\* kind: "move" (to |-> id), "win", "death", or "generate".
ResolveExit(d, cur, chosen, low, pick) ==
    LET others == OtherRooms(d, d.rooms[cur].id)
        said == IF LinkBroken(d, chosen)
                THEN <<"Linked target room does not exist.">> ELSE <<>>
        fallback == IF others # {}
                    THEN [kind |-> "move", to |-> d.rooms[pick].id, msg |-> said]
                    ELSE [kind |-> "generate", to |-> cur, msg |-> said]
    IN  IF LinkResolves(d, chosen)
        THEN [kind |-> "move", to |-> chosen.target[1], msg |-> <<>>]
        ELSE IF chosen.role = "home_or_death"
        THEN [kind |-> HomeOrDeath(low), to |-> cur, msg |-> said]
        ELSE IF chosen.role = "existing_or_new"
        THEN IF low
             THEN [kind |-> "generate", to |-> cur, msg |-> said]
             ELSE IF others # {}
             THEN [kind |-> "move", to |-> d.rooms[pick].id,
                   msg |-> <<"You are transported to an existing room">>]
             ELSE [kind |-> "generate", to |-> cur,
                   msg |-> <<"No existing rooms to transport to; creating one instead.">>]
        ELSE fallback

\* mutant: any password typed is accepted
AdminGate_AnyPassword(room, pw, confirm, coins, pass) ==
    IF room.title # ComputerTitle THEN "wrong_room"
    ELSE IF pw # "" THEN "password"
    ELSE IF coins >= COIN_COST /\ confirm = "y" THEN "paid"
    ELSE "poor"

\* mutant: the coins are not compared with the price
AdminGate_OnCredit(room, pw, confirm, coins, pass) ==
    IF room.title # ComputerTitle THEN "wrong_room"
    ELSE IF pw # ""
    THEN IF pass # "" /\ pw = pass THEN "password" ELSE "invalid"
    ELSE IF confirm = "y" THEN "paid" ELSE "cancelled"

\* The admin command's decision: "wrong_room", "password", "invalid", "paid",
\* "cancelled" or "poor".
AdminGate(room, pw, confirm, coins, pass) ==
    IF room.title # ComputerTitle THEN "wrong_room"
    ELSE IF pw # ""
    THEN IF pass # "" /\ pw = pass THEN "password" ELSE "invalid"
    ELSE IF coins >= COIN_COST
    THEN IF confirm = "y" THEN "paid" ELSE "cancelled"
    ELSE "poor"

\* The prompts the admin command put and the answers typed: the password
\* prompt only at the computer, the confirmation only when no password was
\* typed and the coins suffice.
AdminAnswers(room, pw, confirm, coins) ==
    IF room.title # ComputerTitle THEN <<>>
    ELSE IF pw = "" /\ coins >= COIN_COST
    THEN <<"Admin password:", pw, "Spend coins?", confirm>>
    ELSE <<"Admin password:", pw>>

AdminMessage(gate) ==
    CASE gate = "wrong_room" ->
           <<"Admin/create functions only available at the Room Creation Computer.">>
      [] gate = "invalid" -> <<"Invalid admin password.">>
      [] gate = "cancelled" -> <<"Cancelled.">>
      [] gate = "poor" -> <<"Not enough coins.">>
      [] OTHER -> <<>>

\* adm: [title, coins, parse]; parse = "bad": int(...) of the coin prompt raised
run_admin_create(d, dk, adm) ==
    IF adm.parse = "bad"
    THEN [data |-> d, disk |-> dk, raised |-> TRUE, id |-> d.next_id,
          msg |-> <<"ValueError">>]
    ELSE create_manual_room(d, dk,
             Manual(adm.title, adm.coins,
                    <<Exit("home_or_death", "Left Door"),
                      Exit("existing_or_new", "Right Door")>>, ""))

----------------------------------------------------------------------------
(* World editor *)

\* mutant: the edited exit is renamed after its target
Linked_Relabel(ex, target) ==
    [role |-> "link", label |-> "To room " \o ToString(target), target |-> <<target>>]

\* the exit after "Link exits": role and target overwritten in place
Linked(ex, target) == [ex EXCEPT !.role = "link", !.target = <<target>>]

\* mutant: a target that is no key of rooms is refused
link_exits_interactive_Checked(d, dk, rid, ex_i, target, parse) ==
    IF parse = "bad"
    THEN [data |-> d, disk |-> dk, raised |-> TRUE, msg |-> <<"ValueError">>]
    ELSE IF ~HasRoom(d, rid) \/ ~HasRoom(d, target)
    THEN [data |-> d, disk |-> dk, raised |-> FALSE, msg |-> <<"No such room id.">>]
    ELSE IF ex_i > Len(d.rooms[rid].exits)
    THEN [data |-> d, disk |-> dk, raised |-> TRUE, msg |-> <<"IndexError">>]
    ELSE LET d1 == [d EXCEPT !.rooms[rid].exits[ex_i] =
                               [@ EXCEPT !.role = "link", !.target = <<target>>]]
         IN  [data |-> d1, disk |-> [exists |-> TRUE, torn |-> FALSE, doc |-> d1],
              raised |-> FALSE, msg |-> <<"Exit linked.">>]

\* parse = "bad": int(...) of a prompt raised; ex_i is 1 or 2 (the prompt's choices)
link_exits_interactive(d, dk, rid, ex_i, target, parse) ==
    IF parse = "bad"
    THEN [data |-> d, disk |-> dk, raised |-> TRUE, msg |-> <<"ValueError">>]
    ELSE IF ~HasRoom(d, rid)
    THEN [data |-> d, disk |-> dk, raised |-> FALSE, msg |-> <<"No such room id.">>]
    ELSE IF ex_i > Len(d.rooms[rid].exits)
    THEN [data |-> d, disk |-> dk, raised |-> TRUE, msg |-> <<"IndexError">>]
    ELSE LET d1 == [d EXCEPT !.rooms[rid].exits[ex_i] = Linked(@, target)]
         IN  [data |-> d1, disk |-> save_data(d1), raised |-> FALSE,
              msg |-> <<"Exit linked.">>]

----------------------------------------------------------------------------
(* Events *)

\* chosen: <<>> or <<the exit selected>>; new: <<>> or <<the id of the room created>>
Event(op, msg, chosen, new) ==
    [op |-> op, msg |-> msg, chosen |-> chosen, new |-> new]

NoNew == <<>>

NoExit == <<>>

\* the transcript's mark of a save that did not run to its end
SaveCut == "save interrupted"

----------------------------------------------------------------------------
(* Inputs *)

\* What one generation met: the provider's answer, the coin draw, the image step.
GenOutcomes ==
    {[text |-> "fail", coins |-> 0, image |-> "fail"],
     [text |-> "nondict", coins |-> 0, image |-> "fail"],
     [text |-> "empty", coins |-> 0, image |-> "fail"],
     [text |-> "full", coins |-> 2, image |-> "ok"]}

DesignInputs ==
    [title : {"Annex"}, coins : {0}, label : {"A new exit"},
     img : {"", "path_ok", "path_fail", "upload_ok", "upload_none"}, parse : {"ok"}]
    \cup {[title |-> "Annex", coins |-> 0, label |-> "A new exit", img |-> "",
           parse |-> "bad"]}

AdminInputs == [title : {"Annex"}, coins : {0}, parse : {"ok", "bad"}]

Passwords == {"", "hunter2", "wrong"}

\* What the editor's create-room prompts were answered with; the coin prompt
\* ("Coins in room (0-5)") takes whatever int() parses, -1 included.
EditorPrompts ==
    {Manual(ComputerTitle, 2, <<LinkExit("Left", 0), Exit("existing_or_new", "Right")>>,
            "ok"),
     Manual("Annex", -1, <<Exit("home_or_death", "Left"), LinkExit("Right", 7)>>, "fail"),
     [Manual("Annex", 0, DefaultExits, "") EXCEPT !.parse = "bad"]}

\* "Link exits" is tried on the start room and on an id no room has
RoomIdInputs == {0, 7}

TargetInputs == {0, 7}

\* Where the process is started: no rooms.json and no ADMIN_PASS, or a
\* hand-written rooms.json with ADMIN_PASS set.
Environments ==
    {[disk |-> [exists |-> FALSE, torn |-> FALSE, doc |-> NoWorld], pass |-> ""],
     [disk |-> save_data(AuthoredWorld), pass |-> "hunter2"]}

\* no UploadServer exists
\*   m: the main thread, s: the listener thread (serve_forever),
\*   event: _event, result_path: <<>> for None,
\*   shutdown_request, is_shut_down: the flags of socketserver.BaseServer,
\*   waited: what _event.wait returned, ret: what wait_for_upload returned,
\*   backlog: requests that reached the listening socket and are not yet
\*   taken, sent: how many the browser has sent, req: the request in the
\*   handler, step: how far do_POST has come with it
UpIdle ==
    [m |-> "idle", s |-> "none", room_id |-> <<>>, event |-> FALSE,
     result_path |-> <<>>, shutdown_request |-> FALSE, is_shut_down |-> FALSE,
     waited |-> FALSE, ret |-> "unset", backlog |-> <<>>, sent |-> 0,
     req |-> "", step |-> 0]

----------------------------------------------------------------------------
(* Initial state: the process starts at the main menu *)

Init ==
    /\ \E env \in Environments :
          /\ disk = env.disk
          /\ ADMIN_PASS = env.pass
    /\ data = NoWorld
    /\ current_id = 0
    /\ player_coins = 0
    /\ order = <<>>
    /\ pc = "menu"
    /\ in_play = FALSE
    /\ taken_id = <<>>
    /\ up = UpIdle
    /\ ev = Event("start", <<>>, NoExit, NoNew)

----------------------------------------------------------------------------
(* main_menu *)

MainMenuPlay ==
    /\ pc = "menu"
    /\ LET l == load_data(disk)
       IN  /\ data' = l.data
           /\ disk' = l.disk
           /\ current_id' = l.data.start_room
           /\ pc' = IF l.raised THEN "crashed" ELSE "top"
           /\ in_play' = ~l.raised
           /\ ev' = Event("play", IF l.raised THEN <<"JSONDecodeError">> ELSE <<>>,
                          NoExit, NoNew)
    /\ player_coins' = 0
    /\ order' = <<>>
    /\ UNCHANGED <<ADMIN_PASS, taken_id, up>>

MainMenuEditor ==
    /\ pc = "menu"
    /\ LET l == load_data(disk)
       IN  /\ data' = l.data
           /\ disk' = l.disk
           /\ pc' = IF l.raised THEN "crashed" ELSE "editor"
           /\ ev' = Event("editor", IF l.raised THEN <<"JSONDecodeError">> ELSE <<>>,
                          NoExit, NoNew)
    /\ UNCHANGED <<current_id, player_coins, order, in_play, ADMIN_PASS, taken_id, up>>

MainMenuQuit ==
    /\ pc = "menu"
    /\ pc' = "exited"
    /\ ev' = Event("bye", <<"Bye.">>, NoExit, NoNew)
    /\ UNCHANGED <<disk, data, current_id, player_coins, order, in_play, ADMIN_PASS, taken_id, up>>

----------------------------------------------------------------------------
(* play_game_loop *)

\* Top of the while loop: room lookup, coin pickup (saved), display, shuffle.
\* cut: the save of the pickup was interrupted.
LoopTop ==
    /\ pc = "top"
    /\ IF ~HasRoom(data, current_id)
       THEN /\ pc' = "crashed"
            /\ ev' = Event("enter", <<"KeyError">>, NoExit, NoNew)
            /\ UNCHANGED <<disk, data, player_coins, order>>
       ELSE LET room == data.rooms[current_id]
                d1 == [data EXCEPT !.rooms[current_id] = AfterPickup(room)]
            IN  \E cut \in IF room.coins > 0 THEN BOOLEAN ELSE {FALSE} :
                /\ data' = d1
                /\ player_coins' = player_coins + CoinsGained(room)
                /\ IF cut
                   THEN /\ disk' = interrupted_save(d1)
                        /\ pc' = "crashed"
                        /\ ev' = Event("enter", <<"You pick up coin(s).", SaveCut>>,
                                       NoExit, NoNew)
                        /\ UNCHANGED order
                   ELSE /\ disk' = IF room.coins > 0 THEN save_data(d1) ELSE disk
                        /\ order' \in Orders(Len(room.exits))
                        /\ pc' = "prompt"
                        /\ ev' = Event("enter",
                                       IF room.coins > 0 THEN <<"You pick up coin(s).">>
                                       ELSE <<>>,
                                       NoExit, NoNew)
    /\ UNCHANGED <<current_id, in_play, ADMIN_PASS, taken_id, up>>

CmdQuit ==
    /\ pc = "prompt"
    /\ pc' = "over"
    /\ ev' = Event("quit", <<"Goodbye.">>, NoExit, NoNew)
    /\ order' = <<>>
    /\ UNCHANGED <<disk, data, current_id, player_coins, in_play, ADMIN_PASS, taken_id, up>>

CmdHelp ==
    /\ pc = "prompt"
    /\ pc' = "top"
    /\ ev' = Event("help", <<"Commands">>, NoExit, NoNew)
    /\ order' = <<>>
    /\ UNCHANGED <<disk, data, current_id, player_coins, in_play, ADMIN_PASS, taken_id, up>>

CmdUnknown ==
    /\ pc = "prompt"
    /\ pc' = "top"
    /\ ev' = Event("unknown", <<"Unknown command.">>, NoExit, NoNew)
    /\ order' = <<>>
    /\ UNCHANGED <<disk, data, current_id, player_coins, in_play, ADMIN_PASS, taken_id, up>>

CmdEditor ==
    /\ pc = "prompt"
    /\ pc' = "editor"
    /\ ev' = Event("editor", <<>>, NoExit, NoNew)
    /\ order' = <<>>
    /\ UNCHANGED <<disk, data, current_id, player_coins, in_play, ADMIN_PASS, taken_id, up>>

\* action in disp_exits: the exit behind display key `key` is resolved.
CmdChoose ==
    /\ pc = "prompt"
    /\ \E key \in 1..2, low \in BOOLEAN, gen \in GenOutcomes :
       \E pick \in IF OtherRooms(data, current_id) = {} THEN {current_id}
                   ELSE OtherRooms(data, current_id) :
          IF key \notin DOMAIN order
          THEN /\ pc' = "top"
               /\ order' = <<>>
               /\ ev' = Event("unknown", <<"Unknown command.">>, NoExit, NoNew)
               /\ UNCHANGED <<disk, data, current_id, player_coins>>
          ELSE LET chosen == disp_exits(data.rooms[current_id], order)[key]
                   r == ResolveExit(data, current_id, chosen, low, pick)
                   made == create_new_room_ai(data, disk, gen)
               IN  IF r.kind = "move"
                   THEN /\ current_id' = r.to
                        /\ pc' = "top"
                        /\ order' = <<>>
                        /\ ev' = Event("move", r.msg, <<chosen>>, NoNew)
                        /\ UNCHANGED <<disk, data, player_coins>>
                   ELSE IF r.kind \in {"win", "death"}
                   THEN /\ pc' = "over"
                        /\ order' = <<>>
                        /\ ev' = Event(r.kind, r.msg, <<chosen>>, NoNew)
                        /\ UNCHANGED <<disk, data, current_id, player_coins>>
                   ELSE /\ data.next_id < MaxRooms
                        /\ data' = made.data
                        /\ disk' = made.disk
                        /\ IF made.raised
                           THEN /\ pc' = "crashed"
                                /\ ev' = Event("generate", r.msg \o made.msg,
                                               <<chosen>>, NoNew)
                                /\ UNCHANGED <<current_id, order>>
                           ELSE /\ pc' = "top"
                                /\ current_id' = made.id
                                /\ order' = <<>>
                                /\ ev' = Event("generate", r.msg \o made.msg,
                                               <<chosen>>, <<made.id>>)
                        /\ UNCHANGED player_coins
    /\ UNCHANGED <<in_play, ADMIN_PASS, taken_id, up>>

CmdDesign ==
    /\ pc = "prompt"
    /\ \E inp \in DesignInputs :
          IF ~only_one_exit(data.rooms[current_id])
          THEN /\ pc' = "top"
               /\ order' = <<>>
               /\ ev' = Event("design",
                     <<"Design can only be used in rooms with exactly one built exit.">>,
                     NoExit, NoNew)
               /\ UNCHANGED <<disk, data, current_id>>
          ELSE LET made == design_room_from_current(data, disk, current_id, inp)
               IN  /\ data.next_id < MaxRooms
                   /\ data' = made.data
                   /\ disk' = made.disk
                   /\ IF made.raised
                      THEN /\ pc' = "crashed"
                           /\ ev' = Event("design", made.msg, NoExit, NoNew)
                           /\ UNCHANGED <<current_id, order>>
                      ELSE /\ pc' = "top"
                           /\ current_id' = made.id
                           /\ order' = <<>>
                           /\ ev' = Event("design", made.msg, NoExit, <<made.id>>)
    /\ UNCHANGED <<player_coins, in_play, ADMIN_PASS, taken_id, up>>

CmdAdmin ==
    /\ pc = "prompt"
    /\ \E pw \in Passwords, confirm \in {"y", "n"}, adm \in AdminInputs :
          LET room == data.rooms[current_id]
              gate == AdminGate(room, pw, confirm, player_coins, ADMIN_PASS)
              typed == AdminAnswers(room, pw, confirm, player_coins)
              made == run_admin_create(data, disk, adm)
          IN  IF gate \notin {"password", "paid"}
              THEN /\ pc' = "top"
                   /\ order' = <<>>
                   /\ ev' = Event("admin", typed \o AdminMessage(gate), NoExit, NoNew)
                   /\ UNCHANGED <<disk, data, current_id, player_coins>>
              ELSE /\ data.next_id < MaxRooms
                   /\ data' = made.data
                   /\ disk' = made.disk
                   /\ player_coins' = IF gate = "paid" THEN player_coins - COIN_COST
                                      ELSE player_coins
                   /\ IF made.raised
                      THEN /\ pc' = "crashed"
                           /\ ev' = Event("admin", typed \o made.msg, NoExit, NoNew)
                           /\ UNCHANGED <<current_id, order>>
                      ELSE /\ pc' = "top"
                           /\ current_id' = made.id
                           /\ order' = <<>>
                           /\ ev' = Event("admin", typed \o made.msg, NoExit,
                                          <<made.id>>)
    /\ UNCHANGED <<in_play, ADMIN_PASS, taken_id, up>>

----------------------------------------------------------------------------
(* editor_menu *)

\* "Create room": create_manual_room takes the id and asks its first question
EditorCreateBegin ==
    /\ pc = "editor"
    /\ data.next_id < MaxRooms
    /\ taken_id' = <<data.next_id>>
    /\ data' = begin_manual_room(data)
    /\ pc' = "creating"
    /\ ev' = Event("create", <<"Creating manual room">>, NoExit, NoNew)
    /\ UNCHANGED <<disk, current_id, player_coins, order, in_play, ADMIN_PASS, up>>

\* the prompts are answered; the room is stored and saved, or int(...) raises
EditorCreate ==
    /\ pc = "creating"
    /\ \E m \in EditorPrompts :
          LET made == finish_manual_room(data, disk, taken_id[1], m)
          IN  /\ data' = made.data
              /\ disk' = made.disk
              /\ pc' = IF made.raised THEN "crashed" ELSE "editor"
              /\ ev' = Event("create", made.msg, NoExit,
                             IF made.raised THEN NoNew ELSE <<made.id>>)
    /\ taken_id' = <<>>
    /\ UNCHANGED <<current_id, player_coins, order, in_play, ADMIN_PASS, up>>

\* list rooms, view room, export map: output only; parse = "bad": int(...) of the
\* view prompt raised
EditorInspect ==
    /\ pc = "editor"
    /\ \E parse \in {"ok", "bad"} :
          /\ pc' = IF parse = "bad" THEN "crashed" ELSE "editor"
          /\ ev' = Event("inspect", IF parse = "bad" THEN <<"ValueError">> ELSE <<>>,
                         NoExit, NoNew)
    /\ UNCHANGED <<disk, data, current_id, player_coins, order, in_play, ADMIN_PASS, taken_id, up>>

EditorLink ==
    /\ pc = "editor"
    /\ \E rid \in RoomIdInputs, ex_i \in 1..2, target \in TargetInputs,
          parse \in {"ok", "bad"} :
          LET r == link_exits_interactive(data, disk, rid, ex_i, target, parse)
          IN  /\ data' = r.data
              /\ disk' = r.disk
              /\ pc' = IF r.raised THEN "crashed" ELSE "editor"
              /\ ev' = Event("link", r.msg, NoExit, NoNew)
    /\ UNCHANGED <<current_id, player_coins, order, in_play, ADMIN_PASS, taken_id, up>>

\* "Back": to the play loop's next iteration, or to main_menu
EditorBack ==
    /\ pc = "editor"
    /\ pc' = IF in_play THEN "top" ELSE "menu"
    /\ data' = IF in_play THEN data ELSE NoWorld
    /\ ev' = Event("back", <<>>, NoExit, NoNew)
    /\ UNCHANGED <<disk, current_id, player_coins, order, in_play, ADMIN_PASS, taken_id, up>>

\* play_game_loop returns to main_menu; its locals are gone.
PlayReturn ==
    /\ pc = "over"
    /\ pc' = "menu"
    /\ data' = NoWorld
    /\ current_id' = 0
    /\ player_coins' = 0
    /\ order' = <<>>
    /\ in_play' = FALSE
    /\ ev' = Event("menu", <<>>, NoExit, NoNew)
    /\ UNCHANGED <<disk, ADMIN_PASS, taken_id, up>>

\* The program is started again after it ended.
Restart ==
    /\ pc \in {"crashed", "exited"}
    /\ pc' = "menu"
    /\ data' = NoWorld
    /\ current_id' = 0
    /\ player_coins' = 0
    /\ order' = <<>>
    /\ in_play' = FALSE
    /\ taken_id' = <<>>
    /\ ev' = Event("start", <<>>, NoExit, NoNew)
    /\ UNCHANGED <<disk, ADMIN_PASS, up>>

Next ==
    \/ MainMenuPlay
    \/ MainMenuEditor
    \/ MainMenuQuit
    \/ LoopTop
    \/ CmdQuit
    \/ CmdHelp
    \/ CmdUnknown
    \/ CmdEditor
    \/ CmdChoose
    \/ CmdDesign
    \/ CmdAdmin
    \/ EditorCreateBegin
    \/ EditorCreate
    \/ EditorInspect
    \/ EditorLink
    \/ EditorBack
    \/ PlayReturn
    \/ Restart

Spec == Init /\ [][Next]_vars

----------------------------------------------------------------------------
(* UploadServer: the handshake of a design upload, thread by thread *)

\* the browser sends at most this many requests
MaxRequests == 2

\* GET of the form; a POST that saves; a POST answered 400 (no multipart body
\* or no "file" field); a POST whose image cannot be saved (500); a request of
\* which the client has sent only a part (the handler's sockets have no
\* timeout, its read blocks until the rest comes)
RequestKinds == {"get", "post_ok", "post_400", "post_500", "stalled"}

\* UploadServer(new_room["id"]): constructed, not yet started
UploadServer(id) == [UpIdle EXCEPT !.m = "made", !.room_id = <<id>>]

\* the World when design_room_from_current reaches its upload branch: the new
\* room is created and saved, the current room not yet linked to it
DesignedSoFar ==
    LET d == [AuthoredWorld EXCEPT !.rooms[0] = AfterPickup(@)]
    IN  create_manual_room(d, save_data(d),
            Manual("Annex", 0, DesignedExits(d.rooms[0], 0), ""))

UploadInit ==
    /\ disk = DesignedSoFar.disk
    /\ data = DesignedSoFar.data
    /\ current_id = 0
    /\ player_coins = CoinsGained(AuthoredWorld.rooms[0])
    /\ order = <<1>>
    /\ pc = "uploading"
    /\ in_play = TRUE
    /\ ADMIN_PASS = "hunter2"
    /\ taken_id = <<>>
    /\ up = UploadServer(DesignedSoFar.id)
    /\ ev = Event("design", <<>>, NoExit, NoNew)

Main == <<disk, data, current_id, player_coins, order, pc, in_play, ADMIN_PASS,
          taken_id, ev>>

\* start(): HTTPServer binds the port, the daemon thread is started; the main
\* thread goes on into wait_for_upload and blocks in _event.wait
UpStart ==
    /\ up.m = "made"
    /\ up' = [up EXCEPT !.m = "waiting", !.s = "spawned"]
    /\ UNCHANGED Main

\* start(): the port found by _find_free_port was taken meanwhile; HTTPServer
\* raises OSError, which design_room_from_current does not catch
UpStartFails ==
    /\ up.m = "made"
    /\ up' = [up EXCEPT !.m = "failed"]
    /\ pc' = "crashed"
    /\ ev' = Event("design", <<"OSError">>, NoExit, NoNew)
    /\ UNCHANGED <<disk, data, current_id, player_coins, order, in_play, ADMIN_PASS,
                   taken_id>>

\* the listener thread enters serve_forever
UpServe ==
    /\ up.s = "spawned"
    /\ up' = [up EXCEPT !.s = "polling", !.is_shut_down = FALSE]
    /\ UNCHANGED Main

\* the browser sends a request; the socket listens from start() on and is
\* never closed
UpRequest ==
    /\ up.m \in {"waiting", "woken", "shutting", "returned", "done"}
    /\ up.sent < MaxRequests
    /\ \E kind \in RequestKinds :
          up' = [up EXCEPT !.backlog = Append(@, kind), !.sent = @ + 1]
    /\ UNCHANGED Main

\* serve_forever: select returned with a request ready and no shutdown asked
UpAccept ==
    /\ up.s = "polling"
    /\ ~up.shutdown_request
    /\ up.backlog # <<>>
    /\ up' = [up EXCEPT !.s = "handling", !.req = Head(up.backlog),
                        !.backlog = Tail(@), !.step = 0]
    /\ UNCHANGED Main

\* do_GET, or do_POST's 400 answers: a response, nothing else
UpAnswer ==
    /\ up.s = "handling"
    /\ up.req \in {"get", "post_400"}
    /\ up' = [up EXCEPT !.s = "polling", !.req = ""]
    /\ UNCHANGED Main

\* do_POST: the image is saved and result_path set
UpSave ==
    /\ up.s = "handling" /\ up.req = "post_ok" /\ up.step = 0
    /\ up' = [up EXCEPT !.result_path = <<ImagePath(up.room_id[1])>>, !.step = 1]
    /\ UNCHANGED Main

\* do_POST: _event.set() after the save
UpSignal ==
    /\ up.s = "handling" /\ up.req = "post_ok" /\ up.step = 1
    /\ up' = [up EXCEPT !.event = TRUE, !.step = 2]
    /\ UNCHANGED Main

\* do_POST: the success page is written; the handler returns
UpRespond ==
    /\ up.s = "handling" /\ up.req = "post_ok" /\ up.step = 2
    /\ up' = [up EXCEPT !.s = "polling", !.req = "", !.step = 0]
    /\ UNCHANGED Main

\* do_POST: saving raised; 500 is answered and _event.set() called
UpError ==
    /\ up.s = "handling" /\ up.req = "post_500"
    /\ up' = [up EXCEPT !.event = TRUE, !.s = "polling", !.req = ""]
    /\ UNCHANGED Main

\* the client of a stalled request sends the rest, or gives up and closes:
\* the handler's read returns and the request is one of the complete kinds
UpResume ==
    /\ up.s = "handling"
    /\ up.req = "stalled"
    /\ \E kind \in RequestKinds \ {"stalled"} : up' = [up EXCEPT !.req = kind]
    /\ UNCHANGED Main

\* serve_forever sees the shutdown request and leaves its loop
UpLoopExit ==
    /\ up.s = "polling"
    /\ up.shutdown_request
    /\ up' = [up EXCEPT !.s = "stopped", !.shutdown_request = FALSE,
                        !.is_shut_down = TRUE]
    /\ UNCHANGED Main

\* _event.wait(timeout) returns: True when the event is set, False when the
\* timeout ran out first
UpWake ==
    /\ up.m = "waiting"
    /\ up' = [up EXCEPT !.m = "woken", !.waited = up.event]
    /\ UNCHANGED Main

\* self._server.shutdown(): the request is raised
UpShutdown ==
    /\ up.m = "woken"
    /\ up' = [up EXCEPT !.m = "shutting", !.shutdown_request = TRUE]
    /\ UNCHANGED Main

\* mutant: shutdown() does not wait for the loop to end
ShutdownReturns_AtOnce(u) == TRUE

\* shutdown() returns when serve_forever has set is_shut_down
ShutdownReturns(u) == u.is_shut_down

\* wait_for_upload returns result_path if the wait was signalled, else None
WaitResult(u) ==
    IF u.waited /\ u.result_path # <<>> THEN "path" ELSE "none"

UpReturn ==
    /\ up.m = "shutting"
    /\ ShutdownReturns(up)
    /\ up' = [up EXCEPT !.m = "returned", !.ret = WaitResult(up)]
    /\ UNCHANGED Main

\* design_room_from_current after wait_for_upload: the image path is recorded
\* and saved if one was returned, the forward link is appended to the current
\* room and saved, and the play loop moves the player into the new room
UpDesignFinish ==
    /\ up.m = "returned"
    /\ LET id == up.room_id[1]
           saved == up.ret = "path"
           d1 == IF saved
                 THEN [data EXCEPT !.rooms[id].image = up.result_path[1]]
                 ELSE data
           new_exit == LinkExit("A new exit", id)
           d2 == [d1 EXCEPT !.rooms[current_id].exits = WithNewExit(@, new_exit)]
       IN  /\ data' = d2
           /\ disk' = save_data(d2)
           /\ current_id' = id
           /\ ev' = Event("design",
                          DesignImageMessage(IF saved THEN "upload_ok" ELSE "upload_none")
                          \o <<"Designed new room">>,
                          NoExit, <<id>>)
    /\ pc' = "top"
    /\ order' = <<>>
    /\ up' = [up EXCEPT !.m = "done"]
    /\ UNCHANGED <<player_coins, in_play, ADMIN_PASS, taken_id>>

UploadNext ==
    \/ UpStart
    \/ UpStartFails
    \/ UpServe
    \/ UpRequest
    \/ UpAccept
    \/ UpAnswer
    \/ UpSave
    \/ UpSignal
    \/ UpRespond
    \/ UpError
    \/ UpResume
    \/ UpLoopExit
    \/ UpWake
    \/ UpShutdown
    \/ UpReturn
    \/ UpDesignFinish

UploadSpec == UploadInit /\ [][UploadNext]_vars

\* Scheduling: both threads run whenever they can, the timeout of _event.wait
\* runs out, and a handler whose request has arrived in full goes on. Nothing
\* makes a browser send a request (UpRequest) or a stalled client go on
\* (UpResume).
UploadFairness ==
    /\ WF_vars(UpStart \/ UpStartFails)
    /\ WF_vars(UpServe)
    /\ WF_vars(UpAccept)
    /\ WF_vars(UpAnswer)
    /\ WF_vars(UpSave)
    /\ WF_vars(UpSignal)
    /\ WF_vars(UpRespond)
    /\ WF_vars(UpError)
    /\ WF_vars(UpLoopExit)
    /\ WF_vars(UpWake)
    /\ WF_vars(UpShutdown)
    /\ WF_vars(UpReturn)
    /\ WF_vars(UpDesignFinish)

UploadLiveSpec == UploadSpec /\ UploadFairness

----------------------------------------------------------------------------
(* Properties *)

Messages(e) == {e.msg[i] : i \in DOMAIN e.msg}

BrokenLinkMessage == "Linked target room does not exist."

\* the step resolves an exit: the player chose a display key at the prompt
ChoosesExit == pc = "prompt" /\ ev'.op \in {"move", "win", "death", "generate"}
                             /\ ev'.chosen # <<>>

\* C1: Broken link safety. When the player selects a link exit whose target is
\* no key of the room store, an error is reported, the player stays in the
\* current room, no room is created, nothing in memory or on disk changes, and
\* the process does not crash.
C1_BrokenLinkSafety ==
    [][(/\ ChoosesExit
        /\ ev'.chosen[1].role = "link"
        /\ ev'.chosen[1].target # <<>>
        /\ ev'.chosen[1].target[1] \notin DOMAIN data.rooms)
       => (/\ BrokenLinkMessage \in Messages(ev')
           /\ current_id' = current_id
           /\ ev'.new = <<>>
           /\ data' = data
           /\ disk' = disk
           /\ pc' # "crashed")]_vars

\* C2: Monotonic IDs. On every creation path the room created gets id = next_id
\* as it was at the call (create_manual_room holds it while it prompts), the id
\* was no key of the store before, next_id is
\* larger afterwards, rooms appear only through such a creation, and next_id
\* never decreases in memory or on disk.
C2_MonotonicIds ==
    [][/\ (taken_id' # <<>> /\ taken_id = <<>>
           => taken_id' = <<data.next_id>> /\ data'.next_id > data.next_id)
       /\ (ev'.new # <<>>
           => /\ ev'.new[1] = IF taken_id # <<>> THEN taken_id[1] ELSE data.next_id
              /\ ev'.new[1] \notin DOMAIN data.rooms
              /\ ev'.new[1] \in DOMAIN data'.rooms
              /\ data'.rooms[ev'.new[1]].id = ev'.new[1]
              /\ data'.next_id > ev'.new[1]
              /\ DOMAIN data'.rooms = DOMAIN data.rooms \cup {ev'.new[1]})
       /\ (ev'.new = <<>> /\ pc \notin {"menu"} /\ pc' \notin {"menu"}
           => DOMAIN data'.rooms = DOMAIN data.rooms)
       /\ (pc \notin {"menu"} /\ pc' \notin {"menu"} => data'.next_id >= data.next_id)
       /\ (disk.exists => disk'.exists /\ disk'.doc.next_id >= disk.doc.next_id
                          /\ DOMAIN disk.doc.rooms \subseteq DOMAIN disk'.doc.rooms)
       /\ \A k \in DOMAIN data'.rooms : k < data'.next_id]_vars

\* two rooms created in one run, the second by design
C2_Witness == ev.op = "design" /\ ev.new = <<2>> /\ data.next_id = 3

AllRooms == {data.rooms[k] : k \in DOMAIN data.rooms}
                \cup {disk.doc.rooms[k] : k \in DOMAIN disk.doc.rooms}

\* C3: Exit-count invariant. Every room in memory and on disk has 1 or 2 exits,
\* and right after a design the room it was invoked in (the target of the new
\* room's back link) has exactly 2.
C3_ExitCount ==
    /\ \A room \in AllRooms : Len(room.exits) \in {1, 2}
    /\ (ev.op = "design" /\ ev.new # <<>>
        => Len(data.rooms[data.rooms[ev.new[1]].exits[1].target[1]].exits) = 2)

C3_Witness == ev.op = "design" /\ ev.new # <<>> /\ pc = "top"

\* C4: Coin idempotence. Entering a room holding N > 0 coins adds exactly N to
\* player_coins and leaves the room with 0 coins in memory and, when the loop
\* goes on to its prompt, on disk; entering a room without coins changes neither. No other step raises
\* player_coins, and no step gives an existing room more coins than it has, so
\* a room's coins are picked up at most once.
C4_CoinIdempotence ==
    [][/\ (pc = "top" /\ current_id \in DOMAIN data.rooms
           => LET n == data.rooms[current_id].coins
              IN  IF n > 0
                  THEN /\ player_coins' = player_coins + n
                       /\ data'.rooms[current_id].coins = 0
                       /\ (pc' = "prompt"
                           => ~disk'.torn /\ disk'.doc.rooms[current_id].coins = 0)
                  ELSE /\ player_coins' = player_coins
                       /\ data' = data
                       /\ disk' = disk
                       /\ pc' = "prompt")
       /\ (pc # "top" => player_coins' <= player_coins)
       /\ \A k \in DOMAIN data.rooms \cap DOMAIN data'.rooms :
             data'.rooms[k].coins <= data.rooms[k].coins
       /\ \A k \in DOMAIN disk.doc.rooms \cap DOMAIN disk'.doc.rooms :
             disk'.doc.rooms[k].coins <= disk.doc.rooms[k].coins
       /\ (pc = "menu" /\ pc' \in {"top", "editor"} => data' = disk'.doc)]_vars

\* back in the start room, whose coins were picked up earlier: no second pickup
C4_Witness ==
    /\ pc = "prompt" /\ current_id = 0 /\ player_coins > 0
    /\ ev.op = "enter" /\ ev.msg = <<>>
    /\ data.rooms[0].coins = 0

\* C5: Generation-computer cadence. A generation that returns a room counts
\* once in total_generated; the room is the fixed Room Creation Computer when
\* the count after the increment is a multiple of 10, whatever the provider
\* returned, and otherwise it carries the provider's title and exit labels (or
\* their fallbacks) and is not the fixed room.
C5_ComputerCadence ==
    [][(ev'.op = "generate" /\ ev'.new # <<>>)
       => LET id == ev'.new[1]
              room == data'.rooms[id]
              fixed == [id |-> id, title |-> "Room Creation Computer", image |-> "",
                        coins |-> 0,
                        exits |-> <<Exit("home_or_death", "Left Console Gate"),
                                    Exit("existing_or_new", "Right Console Gate")>>]
          IN  /\ data'.total_generated = data.total_generated + 1
              /\ IF data'.total_generated % 10 = 0
                 THEN room = fixed
                 ELSE /\ room # fixed
                      /\ \E text \in {"empty", "full"} :
                            /\ room.title = GeneratedTitle(text, id)
                            /\ room.exits = GeneratedExits(text)]_vars

C5_Witness ==
    /\ ev.op = "generate" /\ ev.new # <<>>
    /\ data.total_generated = 10
    /\ data.rooms[ev.new[1]].title = ComputerTitle

TextFailureMessages == {"RuntimeError: text generation", "AttributeError: room_json.get"}

\* C6: Text-provider failure is recovered locally. After a generation in which
\* the text provider failed, the process has not crashed, a room was created
\* and is stored in memory and on disk, and the player is in it.
C6_TextFailureRecovered ==
    (ev.op = "generate" /\ Messages(ev) \cap TextFailureMessages # {})
    => (/\ pc # "crashed"
        /\ ev.new # <<>>
        /\ ev.new[1] \in DOMAIN data.rooms
        /\ ev.new[1] \in DOMAIN disk.doc.rooms
        /\ current_id = ev.new[1])

ImageFailureMessages ==
    {"Image generation failed", "Image processing failed",
     "Failed saving uploaded image", "No image uploaded (timeout or error)."}

\* C7: Image failure never aborts room creation. After a creation whose image
\* step failed (AI image generation, manual path/URL processing, design
\* path/URL processing, design upload timeout or error) the new room is stored
\* under its id in memory and on disk with an empty image field, and next_id
\* lies past its id.
C7_ImageFailureNonFatal ==
    (Messages(ev) \cap ImageFailureMessages # {})
    => (/\ ev.new # <<>>
        /\ ev.new[1] \in DOMAIN data.rooms
        /\ data.rooms[ev.new[1]].id = ev.new[1]
        /\ data.rooms[ev.new[1]].image = ""
        /\ data.next_id > ev.new[1]
        /\ disk.exists
        /\ ev.new[1] \in DOMAIN disk.doc.rooms
        /\ disk.doc.rooms[ev.new[1]] = data.rooms[ev.new[1]]
        /\ disk.doc.next_id > ev.new[1])

\* a design whose upload timed out
C7_Witness ==
    /\ ev.op = "design"
    /\ "No image uploaded (timeout or error)." \in Messages(ev)
    /\ ev.new # <<>>

\* C8: Design postcondition. A design in room A, which has exactly one exit,
\* creates one room B with a fresh id whose exits are a link back to A and an
\* existing_or_new exit, and appends one link exit to B as the last exit of A:
\* A then has 2 exits with its original exit first; nothing else in the store
\* changes, and the result is on disk.
C8_DesignPostcondition ==
    [][(ev'.op = "design" /\ ev'.new # <<>>)
       => LET A == current_id
              B == ev'.new[1]
              old == data.rooms[A].exits
              now == data'.rooms[A].exits
              made == data'.rooms[B].exits
          IN  /\ Len(old) = 1
              /\ B = data.next_id
              /\ B \notin DOMAIN data.rooms
              /\ DOMAIN data'.rooms = DOMAIN data.rooms \cup {B}
              /\ Len(made) = 2
              /\ made[1].role = "link" /\ made[1].target = <<A>>
              /\ made[2].role = "existing_or_new" /\ made[2].target = <<>>
              /\ Len(now) = 2
              /\ now[1] = old[1]
              /\ now[2].role = "link" /\ now[2].target = <<B>>
              /\ data'.rooms[A] = [data.rooms[A] EXCEPT !.exits = now]
              /\ \A k \in DOMAIN data.rooms \ {A} : data'.rooms[k] = data.rooms[k]
              /\ disk'.doc = data']_vars

C8_Witness ==
    /\ ev.op = "design" /\ ev.new # <<>>
    /\ current_id = ev.new[1]
    /\ data.rooms[current_id].exits[1].role = "link"

DesignRejected == "Design can only be used in rooms with exactly one built exit."

\* C9: Design precondition. The design command creates a room only in a room
\* with exactly one exit; in a room with two exits it is rejected with a
\* message and the store (memory and disk), next_id, the player's position and
\* the player's coins are unchanged.
C9_DesignPrecondition ==
    [][(pc = "prompt" /\ ev'.op = "design")
       => IF Len(data.rooms[current_id].exits) = 1
          THEN ev'.new # <<>> \/ pc' = "crashed"
          ELSE /\ ev'.new = <<>>
               /\ DesignRejected \in Messages(ev')
               /\ data' = data
               /\ disk' = disk
               /\ current_id' = current_id
               /\ player_coins' = player_coins
               /\ pc' = "top"]_vars

\* design was typed in a room with two exits
C9_Witness ==
    /\ ev.op = "design" /\ ev.new = <<>> /\ pc = "top"
    /\ DesignRejected \in Messages(ev)
    /\ Len(data.rooms[current_id].exits) = 2

\* C10: Link follow. Selecting a link exit whose target is a key of the store
\* moves the player to exactly that room; no room is created and the store
\* (total_generated, every room's exits) is unchanged in memory and on disk.
C10_LinkFollow ==
    [][(/\ ChoosesExit
        /\ ev'.chosen[1].role = "link"
        /\ ev'.chosen[1].target # <<>>
        /\ ev'.chosen[1].target[1] \in DOMAIN data.rooms)
       => (/\ current_id' = ev'.chosen[1].target[1]
           /\ ev'.new = <<>>
           /\ data' = data
           /\ disk' = disk
           /\ pc' = "top")]_vars

C10_Witness ==
    /\ ev.op = "move" /\ ev.chosen # <<>>
    /\ ev.chosen[1].role = "link"
    /\ ev.chosen[1].target = <<current_id>>
    /\ ev.msg = <<>>

KnownRoles == {"home_or_death", "existing_or_new", "link"}

\* C11: existing_or_new resolution. Selecting an existing_or_new exit either
\* moves the player to an already existing room other than the current one,
\* creating nothing, or calls the AI path, and the player is in the room that
\* call created when it returns; when no other room exists the AI path is
\* called.
C11_ExistingOrNew ==
    [][(ChoosesExit /\ ev'.chosen[1].role = "existing_or_new")
       => /\ \/ /\ ev'.op = "move"
                /\ current_id' # current_id
                /\ current_id' \in DOMAIN data.rooms
                /\ ev'.new = <<>>
                /\ data' = data
             \/ /\ ev'.op = "generate"
                /\ (ev'.new # <<>>
                    => /\ current_id' = ev'.new[1]
                       /\ ev'.new[1] \notin DOMAIN data.rooms
                       /\ ev'.new[1] \in DOMAIN data'.rooms)
          /\ (DOMAIN data.rooms \ {current_id} = {} => ev'.op = "generate")]_vars

\* the teleport branch was taken
C11_Witness ==
    /\ ev.op = "move" /\ ev.chosen # <<>>
    /\ ev.chosen[1].role = "existing_or_new"
    /\ "You are transported to an existing room" \in Messages(ev)
    /\ pc = "top"

\* C12: Unrecognized roles are permissive. Selecting an exit whose role is
\* none of home_or_death, existing_or_new, link is not rejected: when another
\* room exists the player is moved to an existing room other than the current
\* one and nothing is created; when none exists the AI path is called and the
\* player is in the room it created when it returns.
C12_UnknownRole ==
    [][(/\ pc = "prompt"
        /\ ev'.chosen # <<>>
        /\ ev'.chosen[1].role \notin KnownRoles)
       => IF DOMAIN data.rooms \ {current_id} # {}
          THEN /\ ev'.op = "move"
               /\ ev'.msg = <<>>
               /\ current_id' # current_id
               /\ current_id' \in DOMAIN data.rooms
               /\ ev'.new = <<>>
               /\ data' = data
               /\ pc' = "top"
          ELSE /\ ev'.op = "generate"
               /\ (ev'.new # <<>>
                   => current_id' = ev'.new[1] /\ ev'.new[1] \in DOMAIN data'.rooms)]_vars

\* an exit of unknown role took the player to another existing room
C12_Witness ==
    /\ ev.op = "move" /\ ev.chosen # <<>>
    /\ ev.chosen[1].role = "secret_passage"
    /\ current_id = 1

\* C13: home_or_death is terminal. Selecting a home_or_death exit ends the play
\* session in that step, in a win or a death; no room is created and the World
\* in memory and the document on disk are unchanged, and they still are when
\* the session has returned to the main menu.
C13_HomeOrDeathTerminal ==
    [][/\ (ChoosesExit /\ ev'.chosen[1].role = "home_or_death")
          => /\ pc' = "over"
             /\ ev'.op \in {"win", "death"}
             /\ ev'.new = <<>>
             /\ data' = data
             /\ disk' = disk
       /\ (pc = "over" => pc' = "menu" /\ disk' = disk /\ ev'.new = <<>>)
       /\ (ev'.op \in {"win", "death"} => pc' = "over")]_vars

\* the session ended in a death
C13_Witness ==
    /\ pc = "over" /\ ev.op = "death"
    /\ ev.chosen[1].role = "home_or_death"
    /\ disk.doc = data

\* C14: Presentation shuffle is non-destructive. Each time the display mapping
\* is computed every room's stored exits are what they were, and the mapping
\* takes the display keys 1..n one-to-one onto the n stored exits of the
\* current room.
C14_ShuffleNonDestructive ==
    [][(ev'.op = "enter" /\ pc' = "prompt")
       => LET exits == data.rooms[current_id].exits
              n == Len(exits)
              disp == disp_exits(data'.rooms[current_id], order')
          IN  /\ \A k \in DOMAIN data.rooms : data'.rooms[k].exits = data.rooms[k].exits
              /\ DOMAIN disp = 1..n
              /\ \A i \in 1..n : \E k \in 1..n : order'[k] = i /\ disp[k] = exits[i]
              /\ \A k, l \in 1..n : order'[k] = order'[l] => k = l]_vars

\* the exits are shown in the other order, for the second time in this room
C14_Witness ==
    /\ pc = "prompt" /\ order = <<2, 1>>
    /\ ev.op = "enter" /\ ev.msg = <<>>
    /\ data.rooms[current_id].exits[1].role = "home_or_death"

\* C15: Persist on every mutation. Whenever the play loop waits at its command
\* prompt or the editor at its menu prompt, rooms.json exists, is complete and
\* holds exactly the World in memory: every handler that changed the World
\* (room creation, coin pickup, design, exit link edit) has rewritten the
\* document by the time it is back at that prompt.
C15_PersistAtCommandPrompts ==
    pc \in {"prompt", "editor"} => disk.exists /\ ~disk.torn /\ disk.doc = data

\* C15 as stated: at every wait for player input, the prompts inside a handler
\* included, the document on disk equals the World in memory.
C15_PersistAtEveryPrompt ==
    pc \in {"prompt", "editor", "creating"} => disk.exists /\ disk.doc = data

\* back at the editor's menu after an exit was linked
C15_Witness ==
    /\ pc = "editor" /\ ev.op = "link" /\ ev.msg = <<"Exit linked.">>
    /\ data.rooms[0].exits[1].role = "link"
    /\ disk.doc = data

\* C16: Atomic save. No load ever meets a document that a save left partly
\* written or empty.
C16_AtomicSave == "JSONDecodeError" \notin Messages(ev)

\* C17: Admin creation gate. The admin command creates a room only at the Room
\* Creation Computer and only when a non-empty password equal to a configured
\* ADMIN_PASS was typed, or no password was typed, player_coins >= COIN_COST
\* and the player confirmed (COIN_COST is then deducted); in every other case
\* no room is created and the player's coins, the World and the document on
\* disk are unchanged.
C17_AdminGate ==
    [][(pc = "prompt" /\ ev'.op = "admin")
       => LET room == data.rooms[current_id]
              ans == ev'.msg
              asked == Len(ans) >= 2 /\ ans[1] = "Admin password:"
              confirmed == Len(ans) >= 4 /\ ans[3] = "Spend coins?" /\ ans[4] = "y"
              by_password == asked /\ ans[2] # "" /\ ADMIN_PASS # "" /\ ans[2] = ADMIN_PASS
              by_coins == asked /\ ans[2] = "" /\ player_coins >= COIN_COST /\ confirmed
              allowed == room.title = ComputerTitle /\ (by_password \/ by_coins)
          IN  /\ (ev'.new # <<>> => allowed)
              /\ (~allowed => /\ ev'.new = <<>>
                              /\ data' = data
                              /\ disk' = disk
                              /\ player_coins' = player_coins
                              /\ current_id' = current_id
                              /\ pc' = "top")
              /\ (allowed /\ by_coins => player_coins' = player_coins - COIN_COST)
              /\ (allowed /\ by_password => player_coins' = player_coins)]_vars

\* a room was bought with coins
C17_Witness ==
    /\ ev.op = "admin" /\ ev.new # <<>>
    /\ Len(ev.msg) >= 4 /\ ev.msg[2] = "" /\ ev.msg[4] = "y"
    /\ player_coins = 0

\* The room the every-10th-generation rule stores. Only that rule writes the
\* console-gate labels here: the labels typed in the editor, admin and design
\* prompts of this model differ, and no handler rewrites a label.
ProducedByRule(room) ==
    /\ room.title = ComputerTitle
    /\ room.exits[1].label = "Left Console Gate"

\* C18: Single gateway. The admin command creates a room only while the player
\* stands in a room that the every-10th-generation rule produced.
C18_SingleGateway ==
    [][(pc = "prompt" /\ ev'.op = "admin" /\ ev'.new # <<>>)
       => ProducedByRule(data.rooms[current_id])]_vars

InputErrors == {"ValueError", "IndexError"}

\* C19: Input errors are recovered. After malformed input (a non-integer where
\* a number is expected, an exit number the room does not have) the process is
\* still running.
C19_InputErrorsRecovered ==
    (Messages(ev) \cap InputErrors # {}) => pc # "crashed"

\* C20: Upload handshake teardown. In every interleaving of the listener
\* thread and the main thread, once wait_for_upload has returned (after an
\* upload signal, a handler error signal or the timeout) serve_forever has
\* ended, no request is in the handler, and none is taken afterwards: what
\* still reaches the socket stays in the backlog.
C20_UploadTeardown ==
    [][/\ (up'.m = "returned" => up'.s = "stopped" /\ up'.req = "")
       /\ (up.m = "returned"
           => /\ up'.s = "stopped"
              /\ up'.result_path = up.result_path
              /\ up'.event = up.event
              /\ Len(up'.backlog) >= Len(up.backlog))]_vars

\* wait_for_upload has returned after the timeout and a request that came
\* later is left unanswered
C20_Witness ==
    /\ up.m = "returned" /\ ~up.waited
    /\ up.s = "stopped"
    /\ up.backlog # <<>>

\* the rooms a step keeps: keys of the World in memory before and after it
Kept == DOMAIN data.rooms \cap DOMAIN data'.rooms

\* C21: Only design grows an exit list. A step changes the number of exits of
\* an existing room only when it is a design, and then only of the room the
\* design was invoked in; a successful "Link exits" rewrites role and target of
\* one exit of one room and keeps that exit's label, the other exit, the exit
\* count and every other room; exit resolution, coin pickup and room creation
\* leave the exits of every existing room as they were.
C21_OnlyDesignGrowsExits ==
    [][/\ \A k \in Kept :
             Len(data'.rooms[k].exits) # Len(data.rooms[k].exits)
             => (ev'.op = "design" /\ ev'.new # <<>> /\ k = current_id
                 /\ Len(data'.rooms[k].exits) = Len(data.rooms[k].exits) + 1)
       /\ (ev'.op = "link" /\ "Exit linked." \in Messages(ev')
           => \E k \in Kept : \E i \in DOMAIN data.rooms[k].exits :
                 LET old == data.rooms[k].exits
                     now == data'.rooms[k].exits
                 IN  /\ DOMAIN now = DOMAIN old
                     /\ now[i].role = "link"
                     /\ now[i].target # <<>>
                     /\ now[i].label = old[i].label
                     /\ \A j \in DOMAIN old \ {i} : now[j] = old[j]
                     /\ data'.rooms[k] = [data.rooms[k] EXCEPT !.exits = now]
                     /\ \A l \in Kept \ {k} : data'.rooms[l] = data.rooms[l])
       /\ (ev'.op \in {"move", "win", "death", "generate", "enter", "admin", "create"}
           => \A k \in Kept : data'.rooms[k].exits = data.rooms[k].exits)
       /\ \A k \in DOMAIN disk.doc.rooms \cap DOMAIN disk'.doc.rooms :
             Len(disk'.doc.rooms[k].exits) # Len(disk.doc.rooms[k].exits)
             => ev'.op = "design" /\ ev'.new # <<>>]_vars

\* the second exit of the start room was linked; the first is as it was built
C21_Witness ==
    /\ pc = "editor" /\ ev.op = "link" /\ ev.msg = <<"Exit linked.">>
    /\ Len(data.rooms[0].exits) = 2
    /\ data.rooms[0].exits[2].role = "link"
    /\ data.rooms[0].exits[2].label = "Right portal"
    /\ data.rooms[0].exits[1].role = "home_or_death"

\* the link exits of World d whose target is no key of its rooms
DanglingLinks(d) ==
    {ki \in (DOMAIN d.rooms) \X {1, 2} :
        /\ ki[2] \in DOMAIN d.rooms[ki[1]].exits
        /\ d.rooms[ki[1]].exits[ki[2]].role = "link"
        /\ d.rooms[ki[1]].exits[ki[2]].target # <<>>
        /\ d.rooms[ki[1]].exits[ki[2]].target[1] \notin DOMAIN d.rooms}

\* C22: Dangling links are reachable. Link creation takes the typed target as
\* it is: at the editor's menu a "Link exits" is possible that succeeds and
\* leaves on disk a complete document with a link exit whose target is no key
\* of rooms, and while create_manual_room prompts, answers are possible with
\* which the room is created and such a document is on disk.
C22_DanglingLinksAccepted ==
    /\ (pc = "editor"
        => ENABLED (/\ EditorLink
                    /\ pc' = "editor"
                    /\ "Exit linked." \in Messages(ev')
                    /\ ~disk'.torn
                    /\ disk'.doc = data'
                    /\ DanglingLinks(disk'.doc) # {}))
    /\ (pc = "creating"
        => ENABLED (/\ EditorCreate
                    /\ pc' = "editor"
                    /\ ev'.new # <<>>
                    /\ ~disk'.torn
                    /\ disk'.doc = data'
                    /\ DanglingLinks(disk'.doc) # {}))

\* on disk: a room made at the editor's prompts with a link to room 7, and an
\* exit of the start room linked to room 7 afterwards; no room 7 exists
C22_Witness ==
    /\ pc = "editor" /\ ev.op = "link" /\ ev.msg = <<"Exit linked.">>
    /\ disk.exists /\ ~disk.torn /\ disk.doc = data
    /\ \E i \in {1, 2} : <<0, i>> \in DanglingLinks(disk.doc)
    /\ \E i \in {1, 2} : <<1, i>> \in DanglingLinks(disk.doc)

\* C23: Room coins are non-negative. Every room in memory and on disk holds
\* coins >= 0, whatever path created it.
C23_CoinsNonNegative == \A room \in AllRooms : room.coins >= 0

\* the process was started without rooms.json: of the two Environments that is
\* the one without ADMIN_PASS, and the variable keeps its value
FromDefaultWorld == ADMIN_PASS = ""

\* C24: Position validity. From the default world, as long as play_game_loop
\* is on the stack, whatever commands were given (exit choices, design, admin,
\* editor, help, unknown input), current_id is a key of rooms, and the room
\* lookup at the top of the loop has never raised KeyError.
C24_PositionValid ==
    FromDefaultWorld
    => /\ (in_play => current_id \in DOMAIN data.rooms)
       /\ "KeyError" \notin Messages(ev)

\* a link to a room that does not exist was chosen and the player was taken to
\* an existing room
C24_Witness ==
    /\ FromDefaultWorld /\ in_play /\ pc = "top"
    /\ ev.op = "move" /\ BrokenLinkMessage \in Messages(ev)
    /\ current_id \in DOMAIN data.rooms

\* C25: Dense ids in the persisted document. In every complete document on
\* disk reachable from the default world the keys of rooms are exactly
\* 0 .. next_id - 1 and rooms[k].id = k: an id taken by a creation call that
\* failed before it stored its room is not on disk.
C25_DenseIds ==
    (FromDefaultWorld /\ disk.exists /\ ~disk.torn)
    => /\ DOMAIN disk.doc.rooms = 0 .. (disk.doc.next_id - 1)
       /\ \A k \in DOMAIN disk.doc.rooms : disk.doc.rooms[k].id = k

\* a generation failed after it took id 2: the counter in memory is past it,
\* the document on disk, two rooms large, is not
C25_Witness ==
    /\ FromDefaultWorld /\ pc = "crashed" /\ ev.op = "generate"
    /\ disk.doc.next_id = 2
    /\ data.next_id = 3
    /\ 2 \notin DOMAIN data.rooms

\* C26: Design is unreachable from the default world. In the runs started
\* without rooms.json every room in memory and on disk has exactly 2 exits,
\* whatever was generated, created in the editor, created by admin or linked,
\* and every design command was rejected without creating a room.
C26_DesignUnreachable ==
    FromDefaultWorld
    => /\ \A room \in AllRooms : Len(room.exits) = 2
       /\ (ev.op = "design" => ev.new = <<>> /\ DesignRejected \in Messages(ev))

\* design was typed in the third room of a world grown from the default one
C26_Witness ==
    /\ FromDefaultWorld /\ ev.op = "design" /\ pc = "top"
    /\ DesignRejected \in Messages(ev)
    /\ current_id = 2
    /\ DOMAIN data.rooms = {0, 1, 2}

\* World d holds no half of a design: every room B whose first exit is the
\* back link design builds ("Back to <title of A>", target A) is the target of
\* a link exit of A
DesignComplete(d) ==
    \A b \in DOMAIN d.rooms :
       LET back == d.rooms[b].exits[1]
       IN  (/\ back.role = "link"
            /\ back.target # <<>>
            /\ back.target[1] \in DOMAIN d.rooms
            /\ back.label = "Back to " \o d.rooms[back.target[1]].title)
           => \E i \in DOMAIN d.rooms[back.target[1]].exits :
                 /\ d.rooms[back.target[1]].exits[i].role = "link"
                 /\ d.rooms[back.target[1]].exits[i].target = <<b>>

\* C27: Design is atomic with respect to the persisted document. Whenever the
\* process has stopped inside a design, or the design has returned, the
\* document on disk holds no design-created room B without the forward link
\* from A to B.
C27_DesignAtomic ==
    (pc = "crashed" \/ up.m = "done") => DesignComplete(disk.doc)

\* C28: Design never creates a dangling link. Throughout a design (the new
\* room stored, the upload awaited, torn down or failed, the forward link
\* appended) no link exit in memory or on disk has a target that is no key of
\* rooms: the back link's target is the originating room, and when the forward
\* link is appended its target is already a key of rooms in memory and on disk.
C28_DesignNoDanglingLink ==
    [][/\ DanglingLinks(data) = {} /\ DanglingLinks(disk.doc) = {}
       /\ DanglingLinks(data') = {} /\ DanglingLinks(disk'.doc) = {}
       /\ data.rooms[up.room_id[1]].exits[1].target = <<0>>
       /\ (Len(data'.rooms[0].exits) # Len(data.rooms[0].exits)
           => LET fwd == data'.rooms[0].exits[Len(data'.rooms[0].exits)]
              IN  /\ fwd.role = "link"
                  /\ fwd.target = up.room_id
                  /\ fwd.target[1] \in DOMAIN data.rooms
                  /\ fwd.target[1] \in DOMAIN disk.doc.rooms
                  /\ ~disk.torn
                  /\ disk'.doc = data')]_vars

\* the design has returned: both links are in place, in memory and on disk
C28_Witness ==
    /\ up.m = "done" /\ pc = "top"
    /\ data.rooms[0].exits[2].target = <<1>>
    /\ data.rooms[1].exits[1].target = <<0>>
    /\ disk.doc = data

\* C29: Player coins never go negative and are charged exactly. COIN_COST >= 0
\* here, and player_coins >= 0 before and after every step; an admin creation
\* for which no password was typed and the spending was confirmed happens only
\* with player_coins >= COIN_COST and leaves exactly COIN_COST less; an admin
\* creation by password leaves player_coins as it was.
C29_CoinsChargedExactly ==
    [][/\ COIN_COST >= 0
       /\ player_coins >= 0
       /\ player_coins' >= 0
       /\ (pc = "prompt" /\ ev'.op = "admin" /\ ev'.new # <<>>
           => LET ans == ev'.msg
                  paid == /\ Len(ans) >= 4
                          /\ ans[1] = "Admin password:" /\ ans[2] = ""
                          /\ ans[3] = "Spend coins?" /\ ans[4] = "y"
              IN  IF paid
                  THEN /\ player_coins >= COIN_COST
                       /\ player_coins' = player_coins - COIN_COST
                  ELSE /\ Len(ans) >= 2 /\ ans[2] # ""
                       /\ player_coins' = player_coins)]_vars

\* a room was created by password and the player still carries three coins
C29_Witness ==
    /\ ev.op = "admin" /\ ev.new # <<>>
    /\ Len(ev.msg) >= 2 /\ ev.msg[2] = "hunter2"
    /\ player_coins = COIN_COST
    /\ pc = "top"

RECURSIVE CoinsIn(_, _)
\* the coins lying in the rooms of `rooms` with a key in S
CoinsIn(rooms, S) ==
    IF S = {} THEN 0
    ELSE LET k == CHOOSE x \in S : TRUE
         IN  rooms[k].coins + CoinsIn(rooms, S \ {k})

\* C30: Coin conservation within a session. Every step of a play session keeps
\* the balance: player_coins, plus COIN_COST if the step is a coin-paid admin
\* creation, plus the coins lying in rooms afterwards, equals player_coins
\* plus the coins lying in rooms before plus the coins placed in the rooms the
\* step created (when no room changed, both sums of lying coins are the same
\* and drop out). From the session's start (player_coins = 0) this sums to:
\* player_coins + COIN_COST * (coin-paid admin creations) + coins lying in
\* rooms = coins in rooms at session start + coins placed in rooms created
\* during the session.
C30_CoinConservation ==
    [][(in_play /\ in_play')
       => LET ans == ev'.msg
              paid == /\ pc = "prompt" /\ ev'.op = "admin"
                      /\ Len(ans) >= 4 /\ ans[3] = "Spend coins?" /\ ans[4] = "y"
              created == DOMAIN data'.rooms \ DOMAIN data.rooms
              price == IF paid THEN COIN_COST ELSE 0
          IN  IF data'.rooms = data.rooms
              THEN player_coins' + price = player_coins
              ELSE player_coins' + price + CoinsIn(data'.rooms, DOMAIN data'.rooms)
                   = player_coins + CoinsIn(data.rooms, DOMAIN data.rooms)
                     + CoinsIn(data'.rooms, created)]_vars

\* the coin of the first chamber and the two coins of a room added during the
\* session are in the player's hand; no coin lies in a room
C30_Witness ==
    /\ FromDefaultWorld /\ in_play /\ pc = "prompt"
    /\ player_coins = 3
    /\ DOMAIN data.rooms = {0, 1}
    /\ CoinsIn(data.rooms, DOMAIN data.rooms) = 0

\* C31: Only AI generation advances the cadence counter. A generation that
\* returns a room raises total_generated by exactly 1; within a run no step
\* that is not a generation (manual, admin and design creation, link edit,
\* coin pickup, move, win, death, the other commands) changes it in memory,
\* and on disk it changes only with a generation that returned a room, by 1;
\* in the runs started without rooms.json total_generated <= next_id - 1 in
\* the World in memory, once loaded, and in the document on disk.
C31_OnlyGenerationCounts ==
    [][/\ (ev'.op = "generate" /\ ev'.new # <<>>
           => data'.total_generated = data.total_generated + 1)
       /\ (pc # "menu" /\ pc' # "menu" /\ ev'.op # "generate"
           => data'.total_generated = data.total_generated)
       /\ (disk'.doc.total_generated # disk.doc.total_generated
           => /\ ev'.op = "generate" /\ ev'.new # <<>>
              /\ disk'.doc.total_generated = disk.doc.total_generated + 1)
       /\ (FromDefaultWorld /\ data' # NoWorld
           => data'.total_generated <= data'.next_id - 1)
       /\ (FromDefaultWorld /\ disk'.exists
           => disk'.doc.total_generated <= disk'.doc.next_id - 1)]_vars

\* one room was generated and one created in the editor afterwards: the
\* counter stands at 1, next_id at 3
C31_Witness ==
    /\ FromDefaultWorld /\ ev.op = "create" /\ ev.new = <<2>>
    /\ data.total_generated = 1
    /\ data.next_id = 3
    /\ disk.doc = data

\* C32: Upload result agrees with stored state. Once wait_for_upload has
\* returned, it returned None exactly when result_path is still None, that is
\* when no upload was saved for the room, and once the design has finished a
\* saved upload is the new room's image.
C32_UploadResultAgrees ==
    /\ (up.m \in {"returned", "done"}
        => (up.ret = "none" <=> up.result_path = <<>>))
    /\ (up.m = "done" /\ up.result_path # <<>>
        => data.rooms[up.room_id[1]].image = up.result_path[1])

\* C33: The upload wait always ends. Every call of wait_for_upload returns:
\* the main thread, once it waits, gets to the point where wait_for_upload has
\* returned, whatever the browser does.
C33_UploadWaitEnds == (up.m = "waiting") ~> (up.m \in {"returned", "done"})

====
